---- MODULE Spec2Model ----
(***************************************************************************)
(* Model of the browser-side OCR page controller, class OCRApplication of  *)
(* Front/src/static/ocr.js.  The browser runs every handler to completion  *)
(* on one thread, so each event handler and each callback continuation is  *)
(* one action.  The asynchronous parts (FileReader reads, the POST /upload *)
(* fetch and its body parse, the 4 second notification timers) are kept as *)
(* collections of pending callbacks that fire in any order.                *)
(*                                                                         *)
(* The interface strings of the source are Cyrillic; TLA+ strings are      *)
(* ASCII only, so each literal is written here in English and its source   *)
(* line is given next to it.                                               *)
(***************************************************************************)
EXTENDS Bags, FiniteSets, Integers, Sequences, TLC

VARIABLES
    currentFile,      \* this.currentFile
    fileInputValue,   \* elements.fileInput.value
    dragOver,         \* 'drag-over' in elements.uploadArea.classList
    uploadArea,       \* children of elements.uploadArea
    fileNameText,     \* elements.fileName.textContent
    fileNameColor,    \* elements.fileName.style.color
    fileNameDisplay,  \* elements.fileNameDisplay.textContent
    btnDisabled,      \* elements.recognizeBtn.disabled
    btnText,          \* elements.recognizeBtn.textContent
    resultText,       \* elements.resultText.textContent
    resultColor,      \* elements.resultText.style.color
    readers,          \* bag of files with a FileReader read pending
    requests,         \* bag of POST /upload calls not yet settled
    notifications,    \* bag of the .notification elements attached to document.body
    staleTimers,      \* pending setTimeout callbacks of elements no longer attached
    clipboard,        \* the text on the system clipboard
    copying,          \* bag of texts with a navigator.clipboard.writeText pending
    statusText,       \* elements.systemStatus.textContent
    statusClass,      \* elements.systemStatus.className
    statusReply,      \* the GET /model_status of the constructor and how it ended
    statusFetches,    \* number of GET /model_status issued
    lastErrorMsg,     \* the message argument of the latest showError call
    last              \* the handler or callback that ran last, with its input

vars == << currentFile, fileInputValue, dragOver, uploadArea, fileNameText,
           fileNameColor, fileNameDisplay, btnDisabled, btnText, resultText,
           resultColor, readers, requests, notifications, staleTimers, clipboard,
           copying, statusText, statusClass, statusReply, statusFetches,
           lastErrorMsg, last >>

----------------------------------------------------------------------------
(* Bounds of the model *)

\* pending notification timers plus outstanding requests
MaxPending == 2
\* FileReader reads pending at once
MaxReaders == 1

----------------------------------------------------------------------------
(* Values *)

NoFile == [name |-> "", type |-> "", size |-> -1]   \* null
Markup == "<markup>"     \* a text or colour the page's HTML sets, not the script

MaxFileSize == 16 * 1024 * 1024                     \* ocr.js:81

allowedTypes ==                                      \* ocr.js:74
    {"image/png", "image/jpeg", "image/jpg", "image/bmp", "image/tiff"}

\* ocr.js:76  'Пожалуйста, выберите файл изображения (PNG, JPG, BMP, TIFF)'
TypeErrorMsg == "Please choose an image file (PNG, JPG, BMP, TIFF)"
\* ocr.js:82  'Файл слишком большой. Максимальный размер: 16MB'
SizeErrorMsg == "File too large. Maximum size: 16MB"
\* ocr.js:109 'Ошибка чтения файла'
ReadErrorMsg == "File read error"
\* ocr.js:196 'Ошибка сети при загрузке файла'
UploadErrorMsg == "Network error while uploading the file"
\* ocr.js:197 'Ошибка сети. Проверьте подключение.'
NetworkNotice == "Network error. Check the connection."
\* ocr.js:188 'Текст успешно распознан!'
SuccessNotice == "Text recognized successfully!"
\* ocr.js:168 'Пожалуйста, сначала выберите файл'
NoFileNotice == "Please select a file first"
\* ocr.js:191 the prefix 'Ошибка: ' of the template literal
ErrorPrefix == "Error: "
\* ocr.js:116 the prefix 'Выбран файл: '
ChosenPrefix == "Chosen file: "
\* ocr.js:118, 157 the prefix 'Файл: '
FilePrefix == "File: "
\* ocr.js:142, 212 'Распознать текст'
ReadyLabel == "Recognize text"
\* ocr.js:208 'Обработка...'
LoadingLabel == "Processing..."
\* ocr.js:150 'Здесь появится распознанный текст...'
Placeholder == "The recognized text will appear here..."

\* ocr.js:222 'Нет текста для копирования'
NoTextNotice == "No text to copy"
\* ocr.js:228 'Текст скопирован в буфер обмена!'
CopiedNotice == "Text copied to the clipboard!"
\* ocr.js:238 'Текст скопирован!'
FallbackCopiedNotice == "Text copied!"
\* ocr.js:257 'Ошибка проверки'
StatusErrorText == "Check failed"

StatusDemoClass == "status-value status-demo"             \* ocr.js:250
StatusAvailableClass == "status-value status-available"   \* ocr.js:252
StatusErrorClass == "status-value status-error"           \* ocr.js:258

Foreign == "<foreign>"   \* what the clipboard held before the page wrote to it

\* GET /model_status: not yet settled, settled with a body, with JSON null, or
\* rejected (fetch or body parse)
StatusPending == [state |-> "pending", status |-> "", engine |-> ""]
StatusRejectedReply == [state |-> "rejected", status |-> "", engine |-> ""]
StatusNullReply == [state |-> "null", status |-> "", engine |-> ""]
StatusReplies ==
    { [state |-> "resolved", status |-> "OCR engine ready", engine |-> "easyocr"],
      [state |-> "resolved", status |-> "Demo mode", engine |-> "pillow"],
      StatusNullReply, StatusRejectedReply }

OkColor == "#4CAF50"          \* ocr.js:117
ErrorColor == "#f44336"       \* ocr.js:123
PlaceholderColor == "#666"    \* ocr.js:151
ResultColor == "#000"         \* ocr.js:156

IconView == [kind |-> "icon", src |-> ""]
PreviewOf(file) == [kind |-> "img", src |-> "data:" \o file.name]   \* ocr.js:98-101

\* The files the user offers in the interleaving specification: two valid
\* ones (one of them exactly at the size limit), one too large and one of a
\* wrong type that is too large as well.
Files ==
    { [name |-> "a.png", type |-> "image/png",  size |-> 1024],
      [name |-> "b.jpg", type |-> "image/jpeg", size |-> MaxFileSize],
      [name |-> "c.png", type |-> "image/png",  size |-> MaxFileSize + 1],
      [name |-> "d.gif", type |-> "image/gif",  size |-> MaxFileSize + 1] }

\* The files of the validation table: every type against every size.
TableTypes == allowedTypes \cup {"image/gif", "application/pdf", ""}
TableSizes == {0, MaxFileSize - 1, MaxFileSize, MaxFileSize + 1}
TableFiles == { [name |-> "t", type |-> t, size |-> z] : t \in TableTypes, z \in TableSizes }

\* What the server may answer to POST /upload for a file (spec section 6).
ServerErrors == {"No text found"}
TextOf(file) == "text of " \o file.name
\* the name under which the server reports the file, its own choice
ServerName(file) == "upload-" \o file.name
NullData == [success |-> FALSE, recognized_text |-> "", filename |-> "", error |-> "", isNull |-> TRUE]
ResponseData(file) ==
    { [success |-> TRUE, recognized_text |-> TextOf(file), filename |-> ServerName(file),
       error |-> "", isNull |-> FALSE] }
    \cup { [success |-> FALSE, recognized_text |-> "", filename |-> "",
            error |-> e, isNull |-> FALSE] : e \in ServerErrors }
    \cup { NullData }

----------------------------------------------------------------------------
(* The state as one record, so that a method is a function on states *)

State ==
    [ currentFile |-> currentFile, fileInputValue |-> fileInputValue,
      dragOver |-> dragOver, uploadArea |-> uploadArea,
      fileNameText |-> fileNameText, fileNameColor |-> fileNameColor,
      fileNameDisplay |-> fileNameDisplay, btnDisabled |-> btnDisabled,
      btnText |-> btnText, resultText |-> resultText, resultColor |-> resultColor,
      readers |-> readers, requests |-> requests,
      notifications |-> notifications, staleTimers |-> staleTimers,
      clipboard |-> clipboard, copying |-> copying,
      statusText |-> statusText, statusClass |-> statusClass,
      statusReply |-> statusReply, statusFetches |-> statusFetches,
      lastErrorMsg |-> lastErrorMsg ]

\* the input of a step that has no response body
NoData == [success |-> FALSE, recognized_text |-> "", filename |-> "", error |-> "", isNull |-> FALSE]

Ran(op, file, data) == last' = [op |-> op, file |-> file, data |-> data]

Becomes(s) ==
    /\ currentFile' = s.currentFile
    /\ fileInputValue' = s.fileInputValue
    /\ dragOver' = s.dragOver
    /\ uploadArea' = s.uploadArea
    /\ fileNameText' = s.fileNameText
    /\ fileNameColor' = s.fileNameColor
    /\ fileNameDisplay' = s.fileNameDisplay
    /\ btnDisabled' = s.btnDisabled
    /\ btnText' = s.btnText
    /\ resultText' = s.resultText
    /\ resultColor' = s.resultColor
    /\ readers' = s.readers
    /\ requests' = s.requests
    /\ notifications' = s.notifications
    /\ staleTimers' = s.staleTimers
    /\ clipboard' = s.clipboard
    /\ copying' = s.copying
    /\ statusText' = s.statusText
    /\ statusClass' = s.statusClass
    /\ statusReply' = s.statusReply
    /\ statusFetches' = s.statusFetches
    /\ lastErrorMsg' = s.lastErrorMsg

\* An attached notification element always has its timer pending: the callback
\* of lines 275-279 detaches it.  Elements have no identity beyond their
\* content, so the attached ones are a bag and the timers of detached ones a
\* count.
Timers(s) == BagCardinality(s.notifications) + s.staleTimers

\* every outstanding request and every pending clipboard write ends in a
\* notification
Pending(s) == BagCardinality(s.requests) + BagCardinality(s.copying) + Timers(s)

----------------------------------------------------------------------------
(* The methods of OCRApplication, each a function from state to state *)

\* enableRecognizeButton restoring the label only
enableRecognizeButtonLabelOnly(s) ==
    [s EXCEPT !.btnText = ReadyLabel]

\* ocr.js:140-143
enableRecognizeButton(s) ==
    [s EXCEPT !.btnDisabled = FALSE, !.btnText = ReadyLabel]

\* ocr.js:145-147
disableRecognizeButton(s) ==
    [s EXCEPT !.btnDisabled = TRUE]

\* ocr.js:135-138: the area holds a clone of the icon field and nothing else
restoreDefaultView(s) ==
    [s EXCEPT !.uploadArea = IconView]

\* resetFileSelection without line 128
resetFileSelectionKeepsFile(s) ==
    LET s1 == [s EXCEPT !.fileInputValue = ""]
        s2 == disableRecognizeButton(s1)
        s3 == [s2 EXCEPT !.fileNameText = ""]
    IN  restoreDefaultView(s3)

\* resetFileSelection without line 130
resetFileSelectionKeepsEnabled(s) ==
    LET s1 == [s EXCEPT !.currentFile = NoFile, !.fileInputValue = ""]
        s3 == [s1 EXCEPT !.fileNameText = ""]
    IN  restoreDefaultView(s3)

\* ocr.js:127-133
resetFileSelection(s) ==
    LET s1 == [s EXCEPT !.currentFile = NoFile, !.fileInputValue = ""]
        s2 == disableRecognizeButton(s1)
        s3 == [s2 EXCEPT !.fileNameText = ""]
    IN  restoreDefaultView(s3)

\* ocr.js:121-125
showError(s, message) ==
    resetFileSelection([s EXCEPT !.fileNameText = message,
                                 !.fileNameColor = ErrorColor,
                                 !.lastErrorMsg = message])

\* ocr.js:115-119
updateFileInfo(s, filename) ==
    [s EXCEPT !.fileNameText = ChosenPrefix \o filename,
              !.fileNameColor = OkColor,
              !.fileNameDisplay = FilePrefix \o filename]

\* ocr.js:149-152
hideResult(s) ==
    [s EXCEPT !.resultText = Placeholder, !.resultColor = PlaceholderColor]

\* ocr.js:154-164 (scrollIntoView changes no state kept here)
showResult(s, text, filename) ==
    [s EXCEPT !.resultText = text, !.resultColor = ResultColor,
              !.fileNameDisplay = FilePrefix \o filename]

\* ocr.js:203-216
setRecognizeButtonState(s, state) ==
    CASE state = "loading" -> [s EXCEPT !.btnText = LoadingLabel, !.btnDisabled = TRUE]
      [] state = "ready"   -> [s EXCEPT !.btnText = ReadyLabel, !.btnDisabled = FALSE]
      [] OTHER             -> s

\* showNotification without lines 264-265
showNotificationKeepsOld(s, message, type) ==
    LET notification == [className |-> "notification notification-" \o type,
                         textContent |-> message]
    IN  [s EXCEPT !.notifications = s.notifications (+) SetToBag({notification})]

\* ocr.js:262-280: remove every .notification, append the new one, start its
\* timer; the timers of the removed elements stay pending
showNotification(s, message, type) ==
    LET notification == [className |-> "notification notification-" \o type,
                         textContent |-> message]
    IN  [s EXCEPT !.notifications = SetToBag({notification}),
                  !.staleTimers = s.staleTimers + BagCardinality(s.notifications)]

\* ocr.js:275-279: the timer callback of an attached element n removes it
notificationTimeout(s, n) ==
    [s EXCEPT !.notifications = s.notifications (-) SetToBag({n})]

\* ocr.js:275-279: the timer callback of a detached element finds parentNode
\* null and removes nothing
staleTimeout(s) ==
    [s EXCEPT !.staleTimers = s.staleTimers - 1]

\* ocr.js:93-113: start the read; onload and onerror run later
displayFilePreview(s, file) ==
    [s EXCEPT !.readers = s.readers (+) SetToBag({file})]

\* ocr.js:96-106  reader.onload
readerOnload(s, file) ==
    [s EXCEPT !.readers = s.readers (-) SetToBag({file}),
              !.uploadArea = PreviewOf(file)]

\* ocr.js:108-110  reader.onerror
readerOnerror(s, file) ==
    showError([s EXCEPT !.readers = s.readers (-) SetToBag({file})], ReadErrorMsg)

\* handleFileSelect without the size check of lines 81-84
handleFileSelectNoSizeCheck(s, file) ==
    IF file = NoFile THEN s
    ELSE IF file.type \notin allowedTypes THEN showError(s, TypeErrorMsg)
    ELSE LET s1 == [s EXCEPT !.currentFile = file]
             s2 == displayFilePreview(s1, file)
             s3 == updateFileInfo(s2, file.name)
             s4 == enableRecognizeButton(s3)
         IN  hideResult(s4)

\* handleFileSelect with >= for > in line 81
handleFileSelectSizeGe(s, file) ==
    IF file = NoFile THEN s
    ELSE IF file.type \notin allowedTypes THEN showError(s, TypeErrorMsg)
    ELSE IF file.size >= MaxFileSize THEN showError(s, SizeErrorMsg)
    ELSE LET s1 == [s EXCEPT !.currentFile = file]
             s2 == displayFilePreview(s1, file)
             s3 == updateFileInfo(s2, file.name)
             s4 == enableRecognizeButton(s3)
         IN  hideResult(s4)

\* ocr.js:70-91
handleFileSelect(s, file) ==
    IF file = NoFile THEN s
    ELSE IF file.type \notin allowedTypes THEN showError(s, TypeErrorMsg)
    ELSE IF file.size > MaxFileSize THEN showError(s, SizeErrorMsg)
    ELSE LET s1 == [s EXCEPT !.currentFile = file]
             s2 == displayFilePreview(s1, file)
             s3 == updateFileInfo(s2, file.name)
             s4 == enableRecognizeButton(s3)
         IN  hideResult(s4)

\* ocr.js:33-37: the change listener of the file input; the input's value is
\* the path of its first file, or empty when the list is empty
fileInputChange(s, files) ==
    IF Len(files) > 0
    THEN handleFileSelect([s EXCEPT !.fileInputValue = files[1].name], files[1])
    ELSE [s EXCEPT !.fileInputValue = ""]

\* ocr.js:51-54
handleDragOver(s) ==
    [s EXCEPT !.dragOver = TRUE]

\* ocr.js:56-58
handleDragLeave(s) ==
    [s EXCEPT !.dragOver = FALSE]

\* ocr.js:60-68
handleDrop(s, files) ==
    LET s1 == [s EXCEPT !.dragOver = FALSE]
    IN  IF Len(files) > 0 THEN handleFileSelect(s1, files[1]) ELSE s1

\* recognizeText showing the loading state before it looks at currentFile
recognizeTextLoadingFirst(s) ==
    LET s1 == setRecognizeButtonState(s, "loading")
    IN  IF s.currentFile = NoFile
        THEN showNotification(s1, NoFileNotice, "error")
        ELSE [s1 EXCEPT !.requests = s1.requests (+) SetToBag({s1.currentFile})]

\* ocr.js:166-182: recognizeText up to its first await
recognizeText(s) ==
    IF s.currentFile = NoFile
    THEN showNotification(s, NoFileNotice, "error")
    ELSE LET s1 == setRecognizeButtonState(s, "loading")
             formData == s1.currentFile
         IN  [s1 EXCEPT !.requests = s1.requests (+) SetToBag({formData})]

\* the catch block clearing the result area as well
recognizeCatchHidesResult(s) ==
    showNotification(hideResult(showError(s, UploadErrorMsg)), NetworkNotice, "error")

\* ocr.js:194-197: the catch block
recognizeCatch(s) ==
    showNotification(showError(s, UploadErrorMsg), NetworkNotice, "error")

\* recognizeText without its finally block
recognizeFinallyOmitted(s) ==
    s

\* ocr.js:198-200: the finally block
recognizeFinally(s) ==
    setRecognizeButtonState(s, "ready")

\* the rejected request issued again
requestRejectedRetries(s, r) ==
    recognizeFinally(recognizeCatch(s))

\* ocr.js:179, 184, 194-200: fetch or response.json() rejected.  r is the file
\* of the request.  Between the two awaits of lines 179 and 184 no handler
\* state changes, so the resolution of fetch alone is not a step.
requestRejected(s, r) ==
    recognizeFinally(recognizeCatch([s EXCEPT !.requests = s.requests (-) SetToBag({r})]))

\* the continuation treating a successful answer like a failed one
jsonResolvedResetsOnSuccess(s, r, data) ==
    LET s0 == [s EXCEPT !.requests = s.requests (-) SetToBag({r})]
        body == IF data.isNull THEN recognizeCatch(s0)
                ELSE IF data.success
                THEN showNotification(
                         resetFileSelection(showResult(s0, data.recognized_text, data.filename)),
                         SuccessNotice, "success")
                ELSE showNotification(showError(s0, data.error),
                                      ErrorPrefix \o data.error, "error")
    IN  recognizeFinally(body)

\* ocr.js:184-200: response.json() resolved with data; reading a property of
\* null throws inside the try and lands in the catch block
jsonResolved(s, r, data) ==
    LET s0 == [s EXCEPT !.requests = s.requests (-) SetToBag({r})]
        body == IF data.isNull THEN recognizeCatch(s0)
                ELSE IF data.success
                THEN showNotification(showResult(s0, data.recognized_text, data.filename),
                                      SuccessNotice, "success")
                ELSE showNotification(showError(s0, data.error),
                                      ErrorPrefix \o data.error, "error")
    IN  recognizeFinally(body)

\* ocr.js:229-238: the catch block of copyToClipboard; execCommand('copy')
\* copies the selected content of the textarea, which is text
copyFallback(s, text) ==
    showNotification([s EXCEPT !.clipboard = text], FallbackCopiedNotice, "success")

\* copyToClipboard without the test for the placeholder
copyToClipboardEmptyCheckOnly(s, hasClipboardApi) ==
    LET text == s.resultText
    IN  IF text = ""
        THEN showNotification(s, NoTextNotice, "error")
        ELSE IF hasClipboardApi
        THEN [s EXCEPT !.copying = s.copying (+) SetToBag({text})]
        ELSE copyFallback(s, text)

\* ocr.js:218-227: copyToClipboard up to its await.  Where navigator.clipboard
\* is undefined line 227 throws at once and the catch block runs in the same
\* task.
copyToClipboard(s, hasClipboardApi) ==
    LET text == s.resultText
    IN  IF text = "" \/ text = Placeholder
        THEN showNotification(s, NoTextNotice, "error")
        ELSE IF hasClipboardApi
        THEN [s EXCEPT !.copying = s.copying (+) SetToBag({text})]
        ELSE copyFallback(s, text)

\* ocr.js:227-228: writeText resolved
clipboardWritten(s, text) ==
    showNotification([s EXCEPT !.copying = s.copying (-) SetToBag({text}),
                               !.clipboard = text],
                     CopiedNotice, "success")

\* ocr.js:227, 229-238: writeText rejected
clipboardRefused(s, text) ==
    copyFallback([s EXCEPT !.copying = s.copying (-) SetToBag({text})], text)

\* checkSystemStatus with the two classes exchanged
checkSystemStatusSettledSwapped(s, reply) ==
    IF reply.state = "resolved"
    THEN [s EXCEPT !.statusReply = reply,
                   !.statusText = reply.status,
                   !.statusClass = IF reply.engine = "pillow"
                                   THEN StatusAvailableClass
                                   ELSE StatusDemoClass]
    ELSE [s EXCEPT !.statusReply = reply,
                   !.statusText = StatusErrorText,
                   !.statusClass = StatusErrorClass]

\* ocr.js:244-258: checkSystemStatus after its awaits.  On a body of JSON null
\* line 247 throws and the catch block runs, as it does when fetch or json()
\* rejects.
checkSystemStatusSettled(s, reply) ==
    IF reply.state = "resolved"
    THEN [s EXCEPT !.statusReply = reply,
                   !.statusText = reply.status,
                   !.statusClass = IF reply.engine = "pillow"
                                   THEN StatusDemoClass
                                   ELSE StatusAvailableClass]
    ELSE [s EXCEPT !.statusReply = reply,
                   !.statusText = StatusErrorText,
                   !.statusClass = StatusErrorClass]

----------------------------------------------------------------------------
(* Events and callbacks *)

\* The handlers read only files.length > 0 and files[0] (lines 34-35, 65-66),
\* so a list stands for every list with the same first file.
FileLists(U) == { <<>> } \cup { <<f>> : f \in U }

Accepted(file) == file.type \in allowedTypes /\ file.size <= MaxFileSize

\* a new read is started only while fewer than MaxReaders are pending
ReaderRoom(files) ==
    (Len(files) > 0 /\ Accepted(files[1])) => BagCardinality(readers) < MaxReaders

\* ocr.js:33-37: the browser fires 'change' only when the input's value changes
FileInputChange(U) ==
    \E files \in FileLists(U) :
        /\ fileInputValue # (IF Len(files) > 0 THEN files[1].name ELSE "")
        /\ ReaderRoom(files)
        /\ Becomes(fileInputChange(State, files))
        /\ Ran("change", IF Len(files) > 0 THEN files[1] ELSE NoFile, NoData)

\* ocr.js:40, 51-54
DragOver ==
    /\ ~dragOver
    /\ Becomes(handleDragOver(State))
    /\ Ran("dragover", NoFile, NoData)

\* ocr.js:41, 56-58
DragLeave ==
    /\ dragOver
    /\ Becomes(handleDragLeave(State))
    /\ Ran("dragleave", NoFile, NoData)

\* ocr.js:42, 60-68
Drop(U) ==
    \E files \in FileLists(U) :
        /\ ReaderRoom(files)
        /\ Becomes(handleDrop(State, files))
        /\ Ran("drop", IF Len(files) > 0 THEN files[1] ELSE NoFile, NoData)

\* ocr.js:96-106
ReaderLoaded ==
    \E file \in BagToSet(readers) :
        /\ Becomes(readerOnload(State, file))
        /\ Ran("onload", file, NoData)

\* ocr.js:108-110
ReaderFailed ==
    \E file \in BagToSet(readers) :
        /\ Becomes(readerOnerror(State, file))
        /\ Ran("onerror", file, NoData)

\* ocr.js:45: a click reaches the listener only while the button is enabled
RecognizeClick ==
    /\ ~btnDisabled
    /\ Pending(State) < MaxPending
    /\ Becomes(recognizeText(State))
    /\ Ran("click", currentFile, NoData)

\* ocr.js:179, 194
FetchRejected ==
    \E r \in BagToSet(requests) :
        /\ Becomes(requestRejected(State, r))
        /\ Ran("fetchRejected", r, NoData)

\* ocr.js:184-192
JsonResolved ==
    \E r \in BagToSet(requests) :
        \E data \in ResponseData(r) :
            /\ Becomes(jsonResolved(State, r, data))
            /\ Ran("answer", r, data)

\* ocr.js:184, 194
JsonRejected ==
    \E r \in BagToSet(requests) :
        /\ Becomes(requestRejected(State, r))
        /\ Ran("jsonRejected", r, NoData)

\* ocr.js:275-279
NotificationTimeout ==
    \E n \in BagToSet(notifications) :
        /\ Becomes(notificationTimeout(State, n))
        /\ Ran("timeout", NoFile, NoData)

\* ocr.js:275-279
StaleTimeout ==
    /\ staleTimers > 0
    /\ Becomes(staleTimeout(State))
    /\ Ran("staleTimeout", NoFile, NoData)

\* a success answer for an image in which the server found no text
EmptyTextData(file) ==
    [success |-> TRUE, recognized_text |-> "", filename |-> ServerName(file),
     error |-> "", isNull |-> FALSE]

\* ocr.js:184-188
JsonResolvedEmpty ==
    \E r \in BagToSet(requests) :
        /\ Becomes(jsonResolved(State, r, EmptyTextData(r)))
        /\ Ran("answer", r, EmptyTextData(r))

\* ocr.js:48, 218-227
CopyClick ==
    \E hasClipboardApi \in BOOLEAN :
        /\ Pending(State) < MaxPending
        /\ Becomes(copyToClipboard(State, hasClipboardApi))
        /\ Ran("copy", NoFile, NoData)

\* ocr.js:227-228
ClipboardWritten ==
    \E text \in BagToSet(copying) :
        /\ Becomes(clipboardWritten(State, text))
        /\ Ran("copied", NoFile, NoData)

\* ocr.js:227, 229-238
ClipboardRefused ==
    \E text \in BagToSet(copying) :
        /\ Becomes(clipboardRefused(State, text))
        /\ Ran("copyFallback", NoFile, NoData)

\* ocr.js:244-258: the one request of line 244 settles once
StatusSettled ==
    \E reply \in StatusReplies :
        /\ statusReply = StatusPending
        /\ Becomes(checkSystemStatusSettled(State, reply))
        /\ Ran("status", NoFile, NoData)

\* ocr.js:2-7 and the page's markup
Init ==
    /\ currentFile = NoFile
    /\ fileInputValue = ""
    /\ dragOver = FALSE
    /\ uploadArea = IconView
    /\ fileNameText = Markup
    /\ fileNameColor = Markup
    /\ fileNameDisplay = Markup
    /\ btnDisabled \in BOOLEAN
    /\ btnText = Markup
    /\ resultText = Markup
    /\ resultColor = Markup
    /\ readers = EmptyBag
    /\ requests = EmptyBag
    /\ notifications = EmptyBag
    /\ staleTimers = 0
    /\ clipboard = Foreign
    /\ copying = EmptyBag
    /\ statusText = Markup
    /\ statusClass = Markup
    /\ statusReply = StatusPending
    /\ statusFetches = 1
    /\ lastErrorMsg = ""
    /\ last = [op |-> "constructor", file |-> NoFile, data |-> NoData]

Next ==
    \/ FileInputChange(Files)
    \/ DragOver
    \/ DragLeave
    \/ Drop(Files)
    \/ ReaderLoaded
    \/ ReaderFailed
    \/ RecognizeClick
    \/ FetchRejected
    \/ JsonResolved
    \/ JsonRejected
    \/ NotificationTimeout
    \/ StaleTimeout

Spec == Init /\ [][Next]_vars

\* The recognition request settles: the code awaits it without a timeout, and
\* the network layer ends every fetch by a response or an error.
Settle == JsonResolved \/ FetchRejected \/ JsonRejected

\* Weak fairness of Settle, WF_vars(Settle), written out by its definition
\* []<>~ENABLED <<Settle>>_vars \/ []<><<Settle>>_vars: Settle has no guard but
\* an outstanding request, which it removes, and a step of Next is a step of
\* Settle exactly when it records one of the three continuations in last.
SettleEnabled == BagCardinality(requests) > 0
SettleRan == last'.op \in {"answer", "fetchRejected", "jsonRejected"}
SettleFairness == []<>(~SettleEnabled) \/ []<><<SettleRan>>_vars

FairSpec == Spec /\ SettleFairness

\* The page whose markup starts with the recognize button disabled.
InitDisabled == Init /\ btnDisabled

SpecDisabled == InitDisabled /\ [][Next]_vars

\* One file that handleFileSelect accepts and one that it refuses.
SampleFiles == { f \in Files : f.name \in {"a.png", "d.gif"} }

\* The copy button beside selection and recognition through the file input.
CopyNext ==
    \/ FileInputChange(SampleFiles)
    \/ ReaderLoaded
    \/ RecognizeClick
    \/ FetchRejected
    \/ JsonResolved
    \/ JsonResolvedEmpty
    \/ NotificationTimeout
    \/ StaleTimeout
    \/ CopyClick
    \/ ClipboardWritten
    \/ ClipboardRefused

CopySpec == Init /\ [][CopyNext]_vars

\* The status request beside selection and recognition through the file input.
StatusNext ==
    \/ FileInputChange(SampleFiles)
    \/ ReaderLoaded
    \/ ReaderFailed
    \/ RecognizeClick
    \/ FetchRejected
    \/ JsonResolved
    \/ JsonRejected
    \/ NotificationTimeout
    \/ StaleTimeout
    \/ StatusSettled

StatusSpec == Init /\ [][StatusNext]_vars

\* The validation table: the same handlers, offered every file of TableFiles.
TableNext ==
    \/ FileInputChange(TableFiles)
    \/ Drop(TableFiles)
    \/ ReaderLoaded
    \/ ReaderFailed

TableSpec == Init /\ [][TableNext]_vars

TypeOK ==
    /\ btnDisabled \in BOOLEAN
    /\ dragOver \in BOOLEAN
    /\ Pending(State) <= MaxPending
    /\ BagCardinality(readers) <= MaxReaders
    /\ staleTimers \in 0..MaxPending

----------------------------------------------------------------------------
(* Vocabulary of the properties *)

Outstanding == BagCardinality(requests)

\* what ran last
Selected == last.op \in {"change", "drop"} /\ last.file # NoFile
Answered == last.op = "answer"
Rejected == last.op \in {"fetchRejected", "jsonRejected"}
\* JSON null makes line 186 throw, which the catch block takes
AnsweredOk == Answered /\ ~last.data.isNull /\ last.data.success
AnsweredError == Answered /\ ~last.data.isNull /\ ~last.data.success
AnsweredNull == Answered /\ last.data.isNull

\* the acceptance rule as the specification words it
SpecTypes == {"image/png", "image/jpeg", "image/jpg", "image/bmp", "image/tiff"}
SpecAccepts(file) == file.type \in SpecTypes /\ file.size <= 16777216

Loading == btnDisabled /\ btnText = LoadingLabel
Ready == ~btnDisabled /\ btnText = ReadyLabel

----------------------------------------------------------------------------
(* C1 *)

\* C1: while a POST /upload started by recognizeText is outstanding, the
\* recognize button is disabled.
C1_DisabledWhileOutstanding ==
    Outstanding > 0 => btnDisabled

----------------------------------------------------------------------------
(* C2 *)

\* C2: at most one POST /upload issued by recognizeText is outstanding at any
\* time.
C2_AtMostOneOutstanding ==
    Outstanding <= 1

---------------------------------------------------------------------------------------------------------------------------------------------
(* C3 *)

\* C3: every outstanding POST /upload carries the currently selected file, and
\* when a successful response is rendered the text shown is the text of the
\* file selected at that moment.
C3_RequestReflectsSelectedFile ==
    /\ \A r \in BagToSet(requests) : r = currentFile
    /\ AnsweredOk => resultText = TextOf(currentFile)

----------------------------------------------------------------------------
(* C4 *)

\* C4: every request that finishes, whatever its outcome, leaves the button
\* enabled with the label of line 212; and, the request settling eventually,
\* every loading state is followed by a ready state.
C4_ReenabledAfterCompletion ==
    /\ []((Answered \/ Rejected) => Ready)
    /\ (Loading ~> Ready)

\* a request has failed on the network and the button is ready again
C4_Witness ==
    /\ Rejected
    /\ Ready
    /\ Outstanding = 0
    /\ currentFile = NoFile

----------------------------------------------------------------------------
(* C5 *)

\* C5: every file sent in a POST /upload, and every file held as currentFile,
\* has an allowed type and at most 16 MiB; a rejected file does not become
\* currentFile; a step of handleFileSelect issues no request.
C5_InvalidRejectedBeforeNetwork ==
    [][ /\ \A r \in BagToSet(requests') : SpecAccepts(r)
        /\ currentFile' # NoFile => SpecAccepts(currentFile')
        /\ (Selected' /\ ~SpecAccepts(last'.file)) => currentFile' # last'.file
        /\ last'.op \in {"change", "drop"} => requests' = requests
      ]_vars

\* a file at the size limit is on its way after another file was rejected
C5_Witness ==
    /\ \E r \in BagToSet(requests) : r.size = MaxFileSize
    /\ lastErrorMsg \in {TypeErrorMsg, SizeErrorMsg}

----------------------------------------------------------------------------
(* C6 *)

\* C6: handleFileSelect accepts a file (currentFile becomes it, the button is
\* enabled) exactly when its type is one of the five and its size is at most
\* 16 MiB; otherwise nothing is selected, the button is disabled, and the
\* rejection is the type rejection whenever the type is wrong, the size
\* rejection only for an allowed type.
C6_ValidationTable ==
    Selected =>
        IF SpecAccepts(last.file)
        THEN currentFile = last.file /\ ~btnDisabled
        ELSE /\ currentFile = NoFile
             /\ btnDisabled
             /\ lastErrorMsg = IF last.file.type \in SpecTypes THEN SizeErrorMsg
                                                               ELSE TypeErrorMsg

\* a file of exactly 16 MiB has just been selected after an oversized one was
\* refused
C6_Witness ==
    /\ Selected
    /\ last.file.size = 16777216
    /\ currentFile = last.file
    /\ ~btnDisabled
    /\ lastErrorMsg = SizeErrorMsg

----------------------------------------------------------------------------
(* C7 *)

\* C7: currentFile starts as null; a valid selection makes it the new file; a
\* validation rejection, a FileReader error, a success-false answer and a
\* network or parse failure make it null; a successful recognition leaves it
\* as it was.
C7_SelectedFileLifecycle ==
    /\ currentFile = NoFile
    /\ [][ /\ Selected' =>
                currentFile' = IF SpecAccepts(last'.file) THEN last'.file ELSE NoFile
           /\ last'.op = "onerror" => currentFile' = NoFile
           /\ (Rejected' \/ AnsweredError' \/ AnsweredNull') => currentFile' = NoFile
           /\ AnsweredOk' => currentFile' = currentFile
         ]_vars

\* the server has answered success false to a request whose file was still
\* selected
C7_Witness ==
    /\ AnsweredError
    /\ currentFile = NoFile
    /\ fileInputValue = ""

----------------------------------------------------------------------------
(* C8 *)

\* the handler that ran last called showNotification
Notified == (last.op = "click" /\ last.file = NoFile) \/ Answered \/ Rejected

\* the message of that call (lines 168, 188, 191, 197)
NoticeText ==
    IF last.op = "click" THEN NoFileNotice
    ELSE IF AnsweredOk THEN SuccessNotice
    ELSE IF AnsweredError THEN ErrorPrefix \o last.data.error
    ELSE NetworkNotice

\* C8: the document never holds more than one notification element; right
\* after showNotification it holds exactly the new one; the timer of an
\* element that is no longer attached removes nothing.
C8_OneNotification ==
    [][ /\ BagCardinality(notifications') <= 1
        /\ Notified' =>
              /\ BagCardinality(notifications') = 1
              /\ \A n \in BagToSet(notifications') : n.textContent = NoticeText'
        /\ last'.op = "staleTimeout" => notifications' = notifications
      ]_vars

\* the timer of a replaced notification has fired while its successor is shown
C8_Witness ==
    /\ last.op = "staleTimeout"
    /\ BagCardinality(notifications) = 1

----------------------------------------------------------------------------
(* C9 *)

VisibleErrorTexts ==
    ({fileNameText} \cup { n.textContent : n \in BagToSet(notifications) }) \ {""}

\* C9: after an answer with success false and error e, the error text left
\* visible (file-name label, notification) is exactly e.
C9_ServerErrorVerbatim ==
    AnsweredError => VisibleErrorTexts = {last.data.error}

----------------------------------------------------------------------------
(* C10 *)

\* C10: in a state reached after a failure, selecting a valid file while no
\* request is outstanding makes it currentFile and enables the button, and a
\* click on the button with that file selected issues one POST /upload
\* carrying it.
C10_RecoverableByReselecting ==
    [][ /\ (lastErrorMsg # "" /\ Outstanding = 0 /\ Selected' /\ SpecAccepts(last'.file))
              => (currentFile' = last'.file /\ ~btnDisabled')
        /\ (lastErrorMsg # "" /\ currentFile # NoFile /\ last'.op = "click")
              => requests' = requests (+) SetToBag({currentFile})
      ]_vars

\* after a failed upload a newly selected file is on its way to the server
C10_Witness ==
    /\ lastErrorMsg = UploadErrorMsg
    /\ last.op = "click"
    /\ currentFile # NoFile
    /\ requests = SetToBag({currentFile})
    /\ fileNameText = ChosenPrefix \o currentFile.name

----------------------------------------------------------------------------
(* C11 *)

NoFileNotification ==
    SetToBag({[className |-> "notification notification-error", textContent |-> NoFileNotice]})

\* C11: a request is issued only by a click, one per click; a request that
\* finishes issues none; a failed request leaves no file selected, a file
\* becomes selected again only by a valid selection, and a click with no file
\* selected issues nothing and shows the 'select a file first' notification.
C11_NothingRetried ==
    [][ /\ Outstanding' <= Outstanding + 1
        /\ Outstanding' > Outstanding => last'.op = "click"
        /\ (Answered' \/ Rejected') => Outstanding' = Outstanding - 1
        /\ (Rejected' \/ AnsweredError' \/ AnsweredNull') => currentFile' = NoFile
        /\ (currentFile = NoFile /\ currentFile' # NoFile)
              => (Selected' /\ SpecAccepts(last'.file))
        /\ (currentFile = NoFile /\ last'.op = "click")
              => (requests' = requests /\ notifications' = NoFileNotification)
      ]_vars

\* after a failed upload a click with nothing selected has only notified
C11_Witness ==
    /\ last.op = "click"
    /\ last.file = NoFile
    /\ lastErrorMsg \in {UploadErrorMsg} \cup ServerErrors
    /\ Outstanding = 0
    /\ notifications = NoFileNotification

----------------------------------------------------------------------------
(* C12 *)

\* C12: whenever no request is outstanding, an enabled recognize button
\* implies a selected file.
C12_EnabledOnlyWithFile ==
    (Outstanding = 0 /\ ~btnDisabled) => currentFile # NoFile

EnabledWithoutFile == Outstanding = 0 /\ ~btnDisabled /\ currentFile = NoFile

\* C12 as amended: with no request outstanding the button is enabled without
\* a selected file only as the result of a request finishing; no selection,
\* rejection, reader callback, click or timer produces that state.
C12_EnabledWithoutFileOnlyAfterRequest ==
    /\ ~EnabledWithoutFile
    /\ [][ (EnabledWithoutFile' /\ ~EnabledWithoutFile) => (Answered' \/ Rejected') ]_vars

\* a failed request has left the button enabled with nothing selected
C12_Witness ==
    /\ EnabledWithoutFile
    /\ Rejected
    /\ btnText = ReadyLabel

----------------------------------------------------------------------------
(* C13 *)

\* the handler that ran last called showError
ShowedError ==
    \/ Selected /\ ~SpecAccepts(last.file)
    \/ last.op = "onerror"
    \/ AnsweredError \/ AnsweredNull \/ Rejected

\* C13: once showError has returned, the file-name label shows the message it
\* was given, in the error colour.
C13_ErrorMessageDisplayed ==
    ShowedError => (fileNameText = lastErrorMsg /\ fileNameText # "" /\ fileNameColor = ErrorColor)

----------------------------------------------------------------------------
(* C14 *)

\* C14: once no FileReader read is pending, the upload area shows the preview
\* of currentFile when a file is selected and the icon view when none is.
C14_PreviewMatchesSelection ==
    BagCardinality(readers) = 0 =>
        uploadArea = IF currentFile # NoFile THEN PreviewOf(currentFile) ELSE IconView

----------------------------------------------------------------------------
(* C15 *)

\* the result area holds recognized text rather than the placeholder (or the
\* text the page started with)
ShowsRecognizedText == resultText \notin {Placeholder, Markup}

\* C15: recognized text in the result area is the text returned for the file
\* that is currently selected, and a step that changes the selection leaves
\* the placeholder in the result area.
C15_ResultBelongsToSelection ==
    [][ /\ ShowsRecognizedText' => (currentFile' # NoFile /\ resultText' = TextOf(currentFile'))
        /\ currentFile' # currentFile => resultText' = Placeholder
      ]_vars

----------------------------------------------------------------------------
(* C16 *)

\* C16: recognizeText with no file selected shows the error notification of
\* line 168, issues no request, and leaves currentFile, the button, the
\* file-name label, the preview and the result area as they were.
C16_NoFileClickOnlyNotifies ==
    [][ (currentFile = NoFile /\ last'.op = "click") =>
          /\ notifications' = NoFileNotification
          /\ requests' = requests
          /\ currentFile' = NoFile
          /\ btnDisabled' = btnDisabled /\ btnText' = btnText
          /\ fileNameText' = fileNameText /\ fileNameColor' = fileNameColor
          /\ fileNameDisplay' = fileNameDisplay
          /\ uploadArea' = uploadArea
          /\ resultText' = resultText /\ resultColor' = resultColor
      ]_vars

\* a click with nothing selected, made while an earlier result is still shown
C16_Witness ==
    /\ last.op = "click"
    /\ last.file = NoFile
    /\ notifications = NoFileNotification
    /\ ShowsRecognizedText
    /\ ~btnDisabled

----------------------------------------------------------------------------
(* C17 *)

SuccessNotification ==
    SetToBag({[className |-> "notification notification-success", textContent |-> SuccessNotice]})

\* C17: a success answer puts recognized_text into the result area and the
\* response's filename (after the prefix of line 157) into the file display,
\* shows the success notification and leaves currentFile and the preview as
\* they were, with the button enabled; a further click then posts the file
\* still selected, without a new selection.
C17_SuccessKeepsSelection ==
    [][ /\ AnsweredOk' =>
              /\ resultText' = last'.data.recognized_text
              /\ resultColor' = ResultColor
              /\ fileNameDisplay' = FilePrefix \o last'.data.filename
              /\ notifications' = SuccessNotification
              /\ currentFile' = currentFile
              /\ uploadArea' = uploadArea
              /\ ~btnDisabled'
        /\ (AnsweredOk /\ currentFile # NoFile /\ last'.op = "click")
              => requests' = requests (+) SetToBag({currentFile})
      ]_vars

\* the file recognized before is on its way again, its earlier result and the
\* server's file name still on screen
C17_Witness ==
    /\ last.op = "click"
    /\ currentFile # NoFile
    /\ requests = SetToBag({currentFile})
    /\ resultText = TextOf(currentFile)
    /\ fileNameDisplay = FilePrefix \o ServerName(currentFile)

----------------------------------------------------------------------------
(* C18 *)

NetworkNotification ==
    SetToBag({[className |-> "notification notification-error", textContent |-> NetworkNotice]})

\* C18: when fetch rejects, the body is no valid JSON or the body is JSON null,
\* the one notification shown is the fixed network error text with the error
\* class, never the success one, and the result area is left as it was.
C18_GenericNetworkMessage ==
    [][ (Rejected' \/ AnsweredNull') =>
          /\ notifications' = NetworkNotification
          /\ \A n \in BagToSet(notifications') :
                n.textContent # SuccessNotice /\ n.className # "notification notification-success"
          /\ resultText' = resultText
          /\ resultColor' = resultColor
          /\ fileNameDisplay' = fileNameDisplay
      ]_vars

\* a request has failed on the network while an earlier result is on screen
C18_Witness ==
    /\ Rejected
    /\ notifications = NetworkNotification
    /\ ShowsRecognizedText
    /\ resultColor = ResultColor

----------------------------------------------------------------------------
(* C19 *)

Notice(type, message) ==
    SetToBag({[className |-> "notification notification-" \o type, textContent |-> message]})

\* what the guard of copyToClipboard refuses to copy
NoText(text) == text = "" \/ text = Placeholder

CopyOps == {"copy", "copied", "copyFallback"}

\* C19: a click on the copy button while the result area is empty or holds
\* the placeholder shows the error notice and writes nothing; otherwise the
\* text read at the click, and no other, is written to the clipboard, by
\* writeText or by the textarea fallback, with a success notice.  No step of
\* copyToClipboard changes currentFile, the button or the result area, and
\* nothing else writes to the clipboard.
C19_CopiesOnlyRealText ==
    [][ /\ (last'.op = "copy" /\ NoText(resultText)) =>
              /\ notifications' = Notice("error", NoTextNotice)
              /\ clipboard' = clipboard
              /\ copying' = copying
        /\ (last'.op = "copy" /\ ~NoText(resultText)) =>
              \/ /\ copying' = copying (+) SetToBag({resultText})
                 /\ clipboard' = clipboard
                 /\ notifications' = notifications
              \/ /\ copying' = copying
                 /\ clipboard' = resultText
                 /\ notifications' = Notice("success", FallbackCopiedNotice)
        /\ last'.op = "copied" =>
              \E text \in BagToSet(copying) :
                  /\ copying' = copying (-) SetToBag({text})
                  /\ clipboard' = text
                  /\ notifications' = Notice("success", CopiedNotice)
        /\ last'.op = "copyFallback" =>
              \E text \in BagToSet(copying) :
                  /\ copying' = copying (-) SetToBag({text})
                  /\ clipboard' = text
                  /\ notifications' = Notice("success", FallbackCopiedNotice)
        /\ last'.op \in CopyOps =>
              /\ currentFile' = currentFile
              /\ btnDisabled' = btnDisabled
              /\ btnText' = btnText
              /\ resultText' = resultText
              /\ resultColor' = resultColor
        /\ clipboard' # clipboard => last'.op \in CopyOps /\ ~NoText(clipboard')
        /\ \A text \in BagToSet(copying') : ~NoText(text)
      ]_vars

\* a recognized text has been copied and a later click, made after a new file
\* put the placeholder back, was refused
C19_Witness ==
    /\ last.op = "copy"
    /\ resultText = Placeholder
    /\ notifications = Notice("error", NoTextNotice)
    /\ \E f \in Files : clipboard = TextOf(f)
    /\ copying = EmptyBag

----------------------------------------------------------------------------
(* C20 *)

\* the status indicator shows what the outcome of GET /model_status asks for
StatusMapped ==
    /\ statusReply.state = "pending" =>
          statusText = Markup /\ statusClass = Markup
    /\ (statusReply.state = "resolved" /\ statusReply.engine = "pillow") =>
          statusText = statusReply.status /\ statusClass = "status-value status-demo"
    /\ (statusReply.state = "resolved" /\ statusReply.engine # "pillow") =>
          statusText = statusReply.status /\ statusClass = "status-value status-available"
    /\ statusReply.state \in {"rejected", "null"} =>
          statusText = StatusErrorText /\ statusClass = "status-value status-error"

\* C20: the constructor issues the only GET /model_status; once it settles
\* the indicator carries the response's status with the demo class for
\* engine 'pillow' and the available class for any other engine, or the
\* error text and class after a failure; the step that settles it leaves
\* currentFile and the recognize button as they were, wherever it falls
\* among the user's events, and nothing else touches the indicator.
C20_StatusIndicator ==
    /\ [](statusFetches = 1 /\ StatusMapped)
    /\ [][ /\ last'.op = "status" =>
                /\ statusReply = StatusPending
                /\ statusReply' # StatusPending
                /\ currentFile' = currentFile
                /\ btnDisabled' = btnDisabled
                /\ btnText' = btnText
           /\ last'.op # "status" =>
                /\ statusReply' = statusReply
                /\ statusText' = statusText
                /\ statusClass' = statusClass
         ]_vars

\* the demo answer arrived while a file was selected and its request was
\* outstanding
C20_Witness ==
    /\ last.op = "status"
    /\ statusReply.engine = "pillow"
    /\ statusText = "Demo mode"
    /\ statusClass = StatusDemoClass
    /\ currentFile # NoFile
    /\ Outstanding > 0
    /\ btnDisabled

====
